---- MODULE Spec2Model ----
(***************************************************************************)
(* A model of json_schema_discovery/schemas.py: schema nodes live on a     *)
(* heap of Python objects, merges are the _merge methods with their        *)
(* shallow copies and in-place mutations, and a client program holds       *)
(* schema nodes in a few variables that it updates with `+=`.              *)
(*                                                                         *)
(* A reference is 0 for an Empty instance (Empty has no attributes, and    *)
(* the code never tests the identity of one: it uses isinstance and ==),   *)
(* and otherwise an index of heap.  The builtin dict behind                *)
(* DictStructure.keys and Variant.values is a heap object of its own,      *)
(* because copy.copy shares it between the copy and the original.          *)
(* Value.value, the sample kept for display, is not modelled: no merge     *)
(* reads it.                                                               *)
(***************************************************************************)
EXTENDS Integers, Sequences, FiniteSets, TLC

VARIABLES
    heap,       \* the Python objects allocated so far
    slot,       \* the client's variables: slot[i] is a reference
    iterOrder,  \* the order in which this run's sets of keys and types iterate
    input,      \* input[i]: the raw values accumulated into slot[i], in order
    last,       \* what the last operation was given and what it produced
    steps       \* `+=` statements executed, failed ones included

vars == <<heap, slot, iterOrder, input, last, steps>>

(***************************************************************************)
(* Bounds.                                                                 *)
(***************************************************************************)
\* raw values fed to each of the two variables of Spec before they are merged
MaxFeed == 2
\* raw values accumulated by SpecAccumulate
MaxInputs == 3
\* `+=` statements tried by SpecErrors
MaxTries == 3

Slots == {1, 2}

(***************************************************************************)
(* Raw JSON-like values.                                                   *)
(***************************************************************************)
Tags == {"int", "str"}
Keys == {"a", "b"}
\* a mapping key that is not a str (the int 1)
NonStrKeys == {"#1"}

RScalar(tag) == [t |-> "scalar", tag |-> tag]
\* a value that is none of dict, list, int, float, str, bool, None, Schema
RObject == [t |-> "object"]
RList(items) == [t |-> "list", items |-> items]
\* items: the mapping's (key, value) pairs in insertion order
RDict(items) == [t |-> "dict", items |-> items]
KV(k, v) == [key |-> k, val |-> v]

RInt == RScalar("int")
RStr == RScalar("str")

(***************************************************************************)
(* Heap objects.                                                           *)
(***************************************************************************)
EmptyRef == 0

NewValue(tag) == [kind |-> "Value", count |-> 1, type |-> tag]
NewPyDict(m) == [kind |-> "dict", map |-> m]
NewDictStructure(k) == [kind |-> "DictStructure", count |-> 1, keys |-> k]
NewListStructure(e) == [kind |-> "ListStructure", count |-> 1, element_schema |-> e]
NewVariant(v) == [kind |-> "Variant", values |-> v, dicts |-> EmptyRef, lists |-> EmptyRef]

KindOf(h, r) == IF r = EmptyRef THEN "Empty" ELSE h[r].kind

\* isinstance(x, CountableSchema)
IsCountable(h, r) == KindOf(h, r) \in {"Value", "DictStructure", "ListStructure"}

Alloc(h, obj) == [h |-> Append(h, obj), r |-> Len(h) + 1]

\* copy.copy(x): a new object with the same attribute values (references are
\* shared); a copy of an Empty is an Empty
copy(h, r) == IF r = EmptyRef THEN [h |-> h, r |-> EmptyRef] ELSE Alloc(h, h[r])

\* d[k] = v on a builtin dict
SetItem(m, k, v) == [x \in (DOMAIN m) \cup {k} |-> IF x = k THEN v ELSE m[x]]

\* the elements of set S in this run's iteration order
Iter(S) == SelectSeq(iterOrder, LAMBDA x : x \in S)

(***************************************************************************)
(* count properties.                                                       *)
(***************************************************************************)
RECURSIVE Count(_, _)

\* the sum of the counts of the nodes m maps the elements of S to
RECURSIVE SumCounts(_, _, _)
SumCounts(h, m, S) ==
    IF S = {} THEN 0
    ELSE LET t == CHOOSE t \in S : TRUE
         IN Count(h, m[t]) + SumCounts(h, m, S \ {t})

\* Variant.__iter__: the buckets, then the dicts slot and the lists slot
\* unless they are Empty; Variant.count sums the counts of these
VariantCount(h, r) ==
    SumCounts(h, h[h[r].values].map, DOMAIN h[h[r].values].map)
    + (IF KindOf(h, h[r].dicts) # "Empty" THEN Count(h, h[r].dicts) ELSE 0)
    + (IF KindOf(h, h[r].lists) # "Empty" THEN Count(h, h[r].lists) ELSE 0)

Count(h, r) ==
    CASE KindOf(h, r) = "Empty" -> 0
      [] KindOf(h, r) = "Variant" -> VariantCount(h, r)
      [] OTHER -> h[r].count

AddCountsSkipped(h, self, other) == h

\* CountableSchema.add_counts
add_counts(h, self, other) ==
    IF IsCountable(h, other)
    THEN [h EXCEPT ![self].count = h[self].count + h[other].count]
    ELSE h

(***************************************************************************)
(* The _merge methods.  Each takes the heap and two references, and gives  *)
(* the heap after the call and the reference returned.                     *)
(***************************************************************************)
Ret(h, r) == [h |-> h, r |-> r]

RECURSIVE merge(_, _, _)

\* Schema.__iadd__ with a right-hand side that is already a Schema
iadd(h, self, other) == merge(h, self, other)

\* d[k] = m.r on the builtin dict d, in the heap m.h: the store that ends
\* `d[k] += ...`
StoreItem(m, d, k) == [m.h EXCEPT ![d].map = SetItem(@, k, m.r)]

\* self.dicts = m.r, self.lists = m.r, self.element_schema = m.r
StoreDicts(m, self) == [m.h EXCEPT ![self].dicts = m.r]
StoreLists(m, self) == [m.h EXCEPT ![self].lists = m.r]
StoreElementSchema(m, self) == [m.h EXCEPT ![self].element_schema = m.r]

\* Variant._merge, other a Variant: the loop of lines 350-351
RECURSIVE VariantMergeCommon(_, _, _, _)
VariantMergeCommon(h, self, other, ts) ==
    IF ts = <<>> THEN h
    ELSE VariantMergeCommon(
             StoreItem(iadd(h, h[h[self].values].map[Head(ts)],
                               h[h[other].values].map[Head(ts)]),
                       h[self].values, Head(ts)),
             self, other, Tail(ts))

\* the loop of lines 353-354
RECURSIVE VariantMergeNew(_, _, _, _)
VariantMergeNew(h, self, other, ts) ==
    IF ts = <<>> THEN h
    ELSE VariantMergeNew(
             StoreItem(Ret(h, h[h[other].values].map[Head(ts)]), h[self].values, Head(ts)),
             self, other, Tail(ts))

VariantMergeCommonTypes(h, self, other) ==
    VariantMergeCommon(h, self, other,
        Iter((DOMAIN h[h[self].values].map) \cap (DOMAIN h[h[other].values].map)))

VariantMergeNewTypes(h, self, other) ==
    VariantMergeNew(h, self, other,
        Iter((DOMAIN h[h[other].values].map) \ (DOMAIN h[h[self].values].map)))

\* line 355: self.dicts += other.dicts
VariantMergeDicts(h, self, other) ==
    StoreDicts(iadd(h, h[self].dicts, h[other].dicts), self)

\* line 356: self.lists += other.dicts
VariantMergeLists(h, self, other) ==
    StoreLists(iadd(h, h[self].lists, h[other].dicts), self)

\* Variant._merge, lines 348-356
VariantMergeVariant(h, self, other) ==
    VariantMergeLists(
        VariantMergeDicts(
            VariantMergeNewTypes(
                VariantMergeCommonTypes(h, self, other),
                self, other),
            self, other),
        self, other)

\* Variant._merge, lines 339-343
VariantMergeValue(h, self, other) ==
    IF h[other].type \in DOMAIN h[h[self].values].map
    THEN StoreItem(iadd(h, h[h[self].values].map[h[other].type], other),
                   h[self].values, h[other].type)
    ELSE StoreItem(Ret(h, other), h[self].values, h[other].type)

\* Variant._merge; it returns self
Variant_merge(h, self, other) ==
    CASE KindOf(h, other) = "Empty" -> Ret(h, self)
      [] KindOf(h, other) = "Value" -> Ret(VariantMergeValue(h, self, other), self)
      [] KindOf(h, other) = "ListStructure" ->
            Ret(StoreLists(iadd(h, h[self].lists, other), self), self)
      [] KindOf(h, other) = "DictStructure" ->
            Ret(StoreDicts(iadd(h, h[self].dicts, other), self), self)
      [] KindOf(h, other) = "Variant" -> Ret(VariantMergeVariant(h, self, other), self)

\* the loop of Variant.__init__: objects are schema nodes already, which
\* make_schema returns as they are
RECURSIVE VariantInitLoop(_, _, _)
VariantInitLoop(h, self, objects) ==
    IF objects = <<>> THEN h
    ELSE VariantInitLoop(Variant_merge(h, self, Head(objects)).h, self, Tail(objects))

VariantInitAt(v, objects) == Ret(VariantInitLoop(v.h, v.r, objects), v.r)

VariantInitValues(d, objects) == VariantInitAt(Alloc(d.h, NewVariant(d.r)), objects)

\* Variant.__init__
Variant_init(h, objects) == VariantInitValues(Alloc(h, NewPyDict(<<>>)), objects)

\* Empty._merge
Empty_merge(h, other) == copy(h, other)

ValueEqAnyValue(h, self, other) == KindOf(h, other) = "Value"

\* Value.__eq__
Value_eq(h, self, other) ==
    IF KindOf(h, other) = "Value" THEN h[self].type = h[other].type ELSE FALSE

\* Value._merge
Value_merge(h, self, other) ==
    IF ~Value_eq(h, self, other)
    THEN Variant_init(h, <<self, other>>)
    ELSE Ret(add_counts(h, self, other), self)

\* DictStructure._merge: the loop of lines 181-182
RECURSIVE DictMergeCommon(_, _, _, _)
DictMergeCommon(h, res, other, ks) ==
    IF ks = <<>> THEN h
    ELSE DictMergeCommon(
             StoreItem(iadd(h, h[h[res].keys].map[Head(ks)], h[h[other].keys].map[Head(ks)]),
                       h[res].keys, Head(ks)),
             res, other, Tail(ks))

\* the loop of lines 184-185
RECURSIVE DictMergeNew(_, _, _, _)
DictMergeNew(h, res, other, ks) ==
    IF ks = <<>> THEN h
    ELSE DictMergeNew(
             StoreItem(copy(h, h[h[other].keys].map[Head(ks)]), h[res].keys, Head(ks)),
             res, other, Tail(ks))

DictMergeCommonKeys(h, res, other) ==
    DictMergeCommon(h, res, other,
        Iter((DOMAIN h[h[res].keys].map) \cap (DOMAIN h[h[other].keys].map)))

DictMergeNewKeys(h, res, other) ==
    DictMergeNew(h, res, other,
        Iter((DOMAIN h[h[other].keys].map) \ (DOMAIN h[h[res].keys].map)))

\* lines 179-186, res the copy of self
DictMergeInto(res, other) ==
    Ret(DictMergeNewKeys(
            DictMergeCommonKeys(add_counts(res.h, res.r, other), res.r, other),
            res.r, other),
        res.r)

\* DictStructure._merge
DictStructure_merge(h, self, other) ==
    IF KindOf(h, other) # "DictStructure"
    THEN Variant_init(h, <<self, other>>)
    ELSE DictMergeInto(copy(h, self), other)

\* line 254: res.element_schema += other.element_schema
ListMergeElements(h, res, other) ==
    StoreElementSchema(iadd(h, h[res].element_schema, h[other].element_schema), res)

\* lines 253-255, res the copy of self
ListMergeInto(res, other) ==
    Ret(ListMergeElements(add_counts(res.h, res.r, other), res.r, other), res.r)

\* ListStructure._merge
ListStructure_merge(h, self, other) ==
    IF KindOf(h, other) # "ListStructure"
    THEN Variant_init(h, <<self, other>>)
    ELSE ListMergeInto(copy(h, self), other)

\* self._merge(other), dispatched on the class of self
merge(h, self, other) ==
    CASE KindOf(h, self) = "Empty" -> Empty_merge(h, other)
      [] KindOf(h, self) = "Value" -> Value_merge(h, self, other)
      [] KindOf(h, self) = "DictStructure" -> DictStructure_merge(h, self, other)
      [] KindOf(h, self) = "ListStructure" -> ListStructure_merge(h, self, other)
      [] KindOf(h, self) = "Variant" -> Variant_merge(h, self, other)

(***************************************************************************)
(* The factory.  A call gives the heap after it, the reference returned    *)
(* and the exception raised ("none" when it returns).  Objects built       *)
(* before an exception stay on the heap, unreferenced.                     *)
(***************************************************************************)
Made(h, r) == [h |-> h, r |-> r, err |-> "none"]
Raised(h, err) == [h |-> h, r |-> EmptyRef, err |-> err]

RECURSIVE make_schema(_, _)

\* the dict comprehension of DictStructure.__init__, line 153; c is the
\* comprehension so far, its dict in c.r
RECURSIVE DictInitItems(_, _)

DictInitItem(c, v, key) ==
    IF v.err # "none" THEN Raised(v.h, v.err)
    ELSE Made(StoreItem(v, c.r, key), c.r)

DictInitItems(c, items) ==
    IF items = <<>> \/ c.err # "none" THEN c
    ELSE DictInitItems(DictInitItem(c, make_schema(c.h, Head(items).val), Head(items).key),
                       Tail(items))

DictInitFinish(c) ==
    IF c.err # "none" THEN c
    ELSE LET o == Alloc(c.h, NewDictStructure(c.r)) IN Made(o.h, o.r)

DictInitStart(d, items) == DictInitFinish(DictInitItems(Made(d.h, d.r), items))

\* DictStructure.__init__
DictStructure_init(h, items) ==
    IF \E i \in 1..Len(items) : items[i].key \in NonStrKeys
    THEN Raised(h, "InvalidKeyType")
    ELSE DictInitStart(Alloc(h, NewPyDict(<<>>)), items)

\* the loop of ListStructure.__init__; c.r is self.element_schema
RECURSIVE ListInitLoop(_, _)

ListInitMerged(m) == Made(m.h, m.r)

ListInitElement(c, v) ==
    IF v.err # "none" THEN Raised(v.h, v.err)
    ELSE ListInitMerged(iadd(v.h, c.r, v.r))

ListInitLoop(c, items) ==
    IF items = <<>> \/ c.err # "none" THEN c
    ELSE ListInitLoop(ListInitElement(c, make_schema(c.h, Head(items))), Tail(items))

ListInitFinish(c) ==
    IF c.err # "none" THEN c
    ELSE LET o == Alloc(c.h, NewListStructure(c.r)) IN Made(o.h, o.r)

\* ListStructure.__init__
ListStructure_init(h, items) == ListInitFinish(ListInitLoop(Made(h, EmptyRef), items))

\* make_schema on a raw value
make_schema(h, obj) ==
    CASE obj.t = "dict" -> DictStructure_init(h, obj.items)
      [] obj.t = "list" -> ListStructure_init(h, obj.items)
      [] obj.t = "scalar" -> LET o == Alloc(h, NewValue(obj.tag)) IN Made(o.h, o.r)
      [] OTHER -> Raised(h, "UnrepresentableValue")

IAddMerged(m) == Made(m.h, m.r)

IAddMadeCatchingAll(c, self) ==
    IF c.err # "none" THEN Raised(c.h, "UnsupportedOperand")
    ELSE IAddMerged(merge(c.h, self, c.r))

\* Schema.__iadd__, lines 36-41, given what make_schema(other) did.  On
\* ValueError __iadd__ returns NotImplemented, and since neither operand
\* defines __add__ or __radd__ the statement raises TypeError (unsupported
\* operand), here "UnsupportedOperand".  The TypeError of line 150 is not
\* caught.
IAddMade(c, self) ==
    CASE c.err = "UnrepresentableValue" -> Raised(c.h, "UnsupportedOperand")
      [] c.err = "InvalidKeyType" -> Raised(c.h, "InvalidKeyType")
      [] OTHER -> IAddMerged(merge(c.h, self, c.r))

\* `self += obj` with a raw right-hand side
iadd_raw(h, self, obj) == IAddMade(make_schema(h, obj), self)

(***************************************************************************)
(* What a node looks like from outside: its class, its counts and its      *)
(* children, as a tree without object identity.                            *)
(***************************************************************************)
NoView == [kind |-> "None"]

RECURSIVE View(_, _)
View(h, r) ==
    CASE KindOf(h, r) = "Empty" -> [kind |-> "Empty"]
      [] KindOf(h, r) = "Value" ->
            [kind |-> "Value", type |-> h[r].type, count |-> h[r].count]
      [] KindOf(h, r) = "DictStructure" ->
            [kind |-> "DictStructure", count |-> h[r].count,
             keys |-> [k \in DOMAIN h[h[r].keys].map |-> View(h, h[h[r].keys].map[k])]]
      [] KindOf(h, r) = "ListStructure" ->
            [kind |-> "ListStructure", count |-> h[r].count,
             element_schema |-> View(h, h[r].element_schema)]
      [] KindOf(h, r) = "Variant" ->
            [kind |-> "Variant", count |-> Count(h, r),
             values |-> [t \in DOMAIN h[h[r].values].map |-> View(h, h[h[r].values].map[t])],
             dicts |-> View(h, h[r].dicts),
             lists |-> View(h, h[r].lists)]

\* the count of a viewed node
ViewCount(v) == IF v.kind \in {"Empty", "None"} THEN 0 ELSE v.count

Countables == {"Value", "DictStructure", "ListStructure"}

\* a view without its counts: the node's shape
RECURSIVE Shape(_)
Shape(v) ==
    CASE v.kind = "Value" -> [kind |-> "Value", type |-> v.type]
      [] v.kind = "DictStructure" ->
            [kind |-> "DictStructure", keys |-> [k \in DOMAIN v.keys |-> Shape(v.keys[k])]]
      [] v.kind = "ListStructure" ->
            [kind |-> "ListStructure", element_schema |-> Shape(v.element_schema)]
      [] v.kind = "Variant" ->
            [kind |-> "Variant",
             values |-> [t \in DOMAIN v.values |-> Shape(v.values[t])],
             dicts |-> Shape(v.dicts), lists |-> Shape(v.lists)]
      [] OTHER -> v

(***************************************************************************)
(* The client program: variables that start as Empty() and are updated     *)
(* with `+=`, as tests/test_json_schema_discovery.py does.                 *)
(***************************************************************************)
Perms(S) == { p \in [1..Cardinality(S) -> S] : \A x \in S : \E i \in DOMAIN p : p[i] = x }

\* sets of str and sets of type objects iterate in an order that depends on
\* the process's hash seed and addresses
IterOrders == { ko \o to : ko \in Perms(Keys), to \in Perms(Tags) }

NoRaw == [t |-> "none"]

NoOp ==
    [op |-> "none", raw |-> NoRaw, same |-> FALSE, made |-> "none", err |-> "none",
     x |-> NoView, y |-> NoView, res |-> NoView, xAfter |-> NoView, yAfter |-> NoView]

Init ==
    /\ heap = <<>>
    /\ slot = [i \in Slots |-> EmptyRef]
    /\ iterOrder \in IterOrders
    /\ input = [i \in Slots |-> <<>>]
    /\ last = NoOp
    /\ steps = 0

\* slot[i] += v, v a raw value.  When the statement raises, slot[i] keeps its
\* reference.
IAddRaw(i, v) ==
    LET mk == make_schema(heap, v)
        c == iadd_raw(heap, slot[i], v)
    IN /\ heap' = c.h
       /\ slot' = IF c.err = "none" THEN [slot EXCEPT ![i] = c.r] ELSE slot
       /\ input' = IF c.err = "none" THEN [input EXCEPT ![i] = Append(@, v)] ELSE input
       /\ last' = [op |-> "iadd_raw", raw |-> v, same |-> FALSE,
                   made |-> mk.err, err |-> c.err,
                   x |-> View(heap, slot[i]),
                   y |-> IF mk.err = "none" THEN View(mk.h, mk.r) ELSE NoView,
                   res |-> IF c.err = "none" THEN View(c.h, c.r) ELSE NoView,
                   xAfter |-> View(c.h, slot[i]),
                   yAfter |-> IF mk.err = "none" THEN View(c.h, mk.r) ELSE NoView]
       /\ steps' = steps + 1
       /\ UNCHANGED iterOrder

\* slot[i] += slot[j], both schema nodes (i = j is `schema += schema`)
IAddNode(i, j) ==
    LET m == iadd(heap, slot[i], slot[j])
    IN /\ heap' = m.h
       /\ slot' = [slot EXCEPT ![i] = m.r]
       /\ last' = [op |-> "iadd_node", raw |-> NoRaw,
                   same |-> (i = j),
                   made |-> "none", err |-> "none",
                   x |-> View(heap, slot[i]), y |-> View(heap, slot[j]),
                   res |-> View(m.h, m.r),
                   xAfter |-> View(m.h, slot[i]), yAfter |-> View(m.h, slot[j])]
       /\ steps' = steps + 1
       /\ UNCHANGED <<iterOrder, input>>

(***************************************************************************)
(* Spec: the program of test_merge_dict, generalised.  Two variables each  *)
(* accumulate up to MaxFeed raw values (the first variable first), then    *)
(* one statement merges the second into the first, or the first into       *)
(* itself as test_merge_same_values does.                                  *)
(***************************************************************************)
RawBasic ==
    { RInt, RStr, RList(<<>>),
      RDict(<<KV("a", RInt)>>), RDict(<<KV("a", RList(<<>>))>>),
      RDict(<<KV("b", RStr)>>) }

Merged == last.op = "iadd_node"

FeedLeft == \E v \in RawBasic :
    /\ ~Merged /\ input[2] = <<>> /\ Len(input[1]) < MaxFeed
    /\ IAddRaw(1, v)

FeedRight == \E v \in RawBasic :
    /\ ~Merged /\ Len(input[2]) < MaxFeed
    /\ IAddRaw(2, v)

MergeRight == ~Merged /\ IAddNode(1, 2)

MergeSelf == ~Merged /\ input[2] = <<>> /\ IAddNode(1, 1)

Next == FeedLeft \/ FeedRight \/ MergeRight \/ MergeSelf

Spec == Init /\ [][Next]_vars

(***************************************************************************)
(* SpecAccumulate: the loop of test_merge_dict_list.  One variable         *)
(* accumulates up to MaxInputs raw values from Empty().                    *)
(***************************************************************************)
RawNested ==
    { RInt,
      RDict(<<KV("a", RInt)>>),
      RList(<<>>),
      RList(<<RInt>>),
      RList(<<RInt, RStr>>),
      RList(<<RDict(<<KV("a", RInt)>>), RDict(<<KV("a", RInt), KV("b", RStr)>>)>>),
      RList(<<RDict(<<KV("a", RInt)>>), RDict(<<KV("a", RDict(<<>>))>>)>>),
      RList(<<RList(<<RInt>>), RInt>>) }

Accumulate == \E v \in RawNested :
    /\ Len(input[1]) < MaxInputs
    /\ IAddRaw(1, v)

NextAccumulate == Accumulate

SpecAccumulate == Init /\ [][NextAccumulate]_vars

\* schema = Empty(); for obj in vs: schema += obj
RECURSIVE AccumulateAll(_, _)
AccumulateAll(c, vs) ==
    IF vs = <<>> THEN c
    ELSE AccumulateAll(iadd_raw(c.h, c.r, Head(vs)), Tail(vs))

(***************************************************************************)
(* SpecErrors: one variable accumulates raw values, some of which cannot   *)
(* be converted; at most MaxTries statements.                              *)
(***************************************************************************)
RawGood == { RInt, RDict(<<KV("a", RInt)>>), RList(<<RInt>>) }

RawBad ==
    { RObject,
      RDict(<<KV("#1", RStr)>>),
      RList(<<RInt, RObject>>),
      RDict(<<KV("a", RObject)>>),
      RDict(<<KV("a", RDict(<<KV("#1", RInt)>>))>>),
      RDict(<<KV("a", RObject), KV("#1", RInt)>>),
      RList(<<RDict(<<KV("a", RInt)>>), RDict(<<KV("#1", RObject)>>)>>),
      RList(<<RObject, RDict(<<KV("#1", RInt)>>)>>) }

Try == \E v \in RawGood \cup RawBad :
    /\ steps < MaxTries
    /\ IAddRaw(1, v)

NextErrors == Try

SpecErrors == Init /\ [][NextErrors]_vars

(***************************************************************************)
(* Properties.                                                             *)
(***************************************************************************)
\* the last statement merged last.y into last.x and gave last.res
LastMerged == last.op # "none" /\ last.err = "none"

RECURSIVE SumSeq(_)
SumSeq(ns) == IF ns = <<>> THEN 0 ELSE Head(ns) + SumSeq(Tail(ns))

\* the count of the child of view v at key (or type) k of its mapping m, 0
\* when it has none
CountAt(m, k) == IF k \in DOMAIN m THEN ViewCount(m[k]) ELSE 0

\* C1: merging two countable nodes (Scalar, Object structure or Array
\* structure, of the same kind or not) returns a node whose count is the sum
\* of the counts the two had before the merge.
C1_CountConservation ==
    (LastMerged /\ last.x.kind \in Countables /\ last.y.kind \in Countables)
        => ViewCount(last.res) = ViewCount(last.x) + ViewCount(last.y)

C1_Witness ==
    /\ last.op = "iadd_node" /\ ~last.same
    /\ last.x.kind = "DictStructure" /\ last.y.kind = "ListStructure"
    /\ last.x.count = 2 /\ last.y.count = 2
    /\ ViewCount(last.res) = 4

\* C2: accumulating the same raw values from Empty in any order gives the
\* same result: the same kinds, shapes and counts at every position.
C2_OrderIndependence ==
    \A p \in Perms(1..Len(input[1])) :
        LET a == AccumulateAll(Made(<<>>, EmptyRef),
                               [i \in 1..Len(input[1]) |-> input[1][p[i]]])
        IN View(a.h, a.r) = View(heap, slot[1])

\* C3: Empty is a two-sided identity of merge: merge(Empty, X) and
\* merge(X, Empty) return a node of X's kind, shape-equal to X and with X's
\* count.
C3_EmptyIdentity ==
    (LastMerged /\ (last.x.kind = "Empty" \/ last.y.kind = "Empty"))
        => LET o == IF last.x.kind = "Empty" THEN last.y ELSE last.x
           IN /\ last.res.kind = o.kind
              /\ Shape(last.res) = Shape(o)
              /\ ViewCount(last.res) = ViewCount(o)

RECURSIVE NoNestedUnion(_)
NoNestedUnion(v) ==
    CASE v.kind = "Variant" ->
            /\ \A t \in DOMAIN v.values : v.values[t].kind = "Value"
            /\ v.dicts.kind \in {"Empty", "DictStructure"}
            /\ v.lists.kind \in {"Empty", "ListStructure"}
            /\ NoNestedUnion(v.dicts)
            /\ NoNestedUnion(v.lists)
      [] v.kind = "DictStructure" -> \A k \in DOMAIN v.keys : NoNestedUnion(v.keys[k])
      [] v.kind = "ListStructure" -> NoNestedUnion(v.element_schema)
      [] OTHER -> TRUE

\* C4: unions never nest: every Union's buckets hold Scalars, its object slot
\* holds Empty or an Object structure, and its array slot holds Empty or an
\* Array structure.
C4_UnionsNeverNest == \A i \in Slots : NoNestedUnion(View(heap, slot[i]))

\* C5: merging a Union into another combines them slot by slot, the object
\* and array slots independently: buckets of the same type are combined and
\* the others copied in, the object slot comes from the two object slots,
\* the array slot from the two array slots, and the counts add up.
C5_UnionSlotwise ==
    (last.op = "iadd_node" /\ ~last.same
        /\ last.x.kind = "Variant" /\ last.y.kind = "Variant")
        => /\ last.res.kind = "Variant"
           /\ DOMAIN last.res.values = (DOMAIN last.x.values) \cup (DOMAIN last.y.values)
           /\ \A t \in DOMAIN last.res.values :
                  /\ last.res.values[t].kind = "Value"
                  /\ ViewCount(last.res.values[t])
                        = CountAt(last.x.values, t) + CountAt(last.y.values, t)
           /\ last.res.dicts.kind \in {"Empty", "DictStructure"}
           /\ ViewCount(last.res.dicts) = ViewCount(last.x.dicts) + ViewCount(last.y.dicts)
           /\ last.res.lists.kind \in {"Empty", "ListStructure"}
           /\ ViewCount(last.res.lists) = ViewCount(last.x.lists) + ViewCount(last.y.lists)
           /\ ViewCount(last.res) = ViewCount(last.x) + ViewCount(last.y)

\* C6: merging two Object structures, each accumulated from raw objects,
\* gives an Object structure whose count is the sum of their counts, whose
\* keys are the keys of either, and where each key's child count is the sum
\* of that key's child counts in the two (0 where the key is missing).
C6_ObjectMerge ==
    (last.op = "iadd_node" /\ ~last.same
        /\ last.x.kind = "DictStructure" /\ last.y.kind = "DictStructure")
        => /\ last.res.kind = "DictStructure"
           /\ last.res.count = last.x.count + last.y.count
           /\ DOMAIN last.res.keys = (DOMAIN last.x.keys) \cup (DOMAIN last.y.keys)
           /\ \A k \in DOMAIN last.res.keys :
                  ViewCount(last.res.keys[k]) = CountAt(last.x.keys, k) + CountAt(last.y.keys, k)

\* the elements of all the arrays vs
TotalElements(vs) == SumSeq([i \in 1..Len(vs) |-> Len(vs[i].items)])

\* the elements of the arrays vs that are objects with key k
Carrying(vs, k) ==
    SumSeq([i \in 1..Len(vs) |->
        Cardinality({ j \in 1..Len(vs[i].items) :
            /\ vs[i].items[j].t = "dict"
            /\ \E n \in 1..Len(vs[i].items[j].items) : vs[i].items[j].items[n].key = k })])

\* C7: after accumulating arrays from Empty, the result is an Array structure
\* whose count is the number of arrays and whose element schema's count is
\* the number of elements of all the arrays; when the elements are objects,
\* each key's child count is the number of elements with that key.
C7_ArrayAccumulation ==
    LET vs == input[1]
        v == View(heap, slot[1])
    IN (vs # <<>> /\ \A i \in 1..Len(vs) : vs[i].t = "list")
        => /\ v.kind = "ListStructure"
           /\ v.count = Len(vs)
           /\ ViewCount(v.element_schema) = TotalElements(vs)
           /\ (TotalElements(vs) > 0
                 /\ \A i \in 1..Len(vs) : \A j \in 1..Len(vs[i].items) : vs[i].items[j].t = "dict")
               => /\ v.element_schema.kind = "DictStructure"
                  /\ \A k \in Keys : CountAt(v.element_schema.keys, k) = Carrying(vs, k)

\* C8: merging two Scalars depends on their type tags only.  Equal tags (a
\* Scalar merged with itself too): one Scalar with the sum of the counts, no
\* Union.  Different tags: a new Union with one bucket per tag and the sum of
\* the counts, the two Scalars' counts unchanged.
C8_ScalarMerge ==
    (LastMerged /\ last.x.kind = "Value" /\ last.y.kind = "Value")
        => IF last.x.type = last.y.type
           THEN /\ last.res.kind = "Value"
                /\ last.res.type = last.x.type
                /\ last.res.count = last.x.count + last.y.count
           ELSE /\ last.res.kind = "Variant"
                /\ DOMAIN last.res.values = {last.x.type, last.y.type}
                /\ last.res.values[last.x.type] = last.x
                /\ last.res.values[last.y.type] = last.y
                /\ last.res.dicts.kind = "Empty"
                /\ last.res.lists.kind = "Empty"
                /\ last.res.count = last.x.count + last.y.count
                /\ last.xAfter = last.x
                /\ last.yAfter = last.y

C8_Witness ==
    /\ last.op = "iadd_node" /\ ~last.same
    /\ last.x.kind = "Value" /\ last.y.kind = "Value"
    /\ last.x.type # last.y.type
    /\ last.x.count = 2 /\ last.y.count = 2
    /\ last.res.kind = "Variant"

\* raw value v holds, at some depth, a mapping with a key that is not a str,
\* or a value that is none of mapping, sequence, primitive or schema node
RECURSIVE HasBad(_)
HasBad(v) ==
    CASE v.t = "object" -> TRUE
      [] v.t = "list" -> \E i \in 1..Len(v.items) : HasBad(v.items[i])
      [] v.t = "dict" -> \E i \in 1..Len(v.items) :
                              v.items[i].key \in NonStrKeys \/ HasBad(v.items[i].val)
      [] OTHER -> FALSE

\* the last statement was `N += v` with such a v; it raised, returned no
\* node, and left N as it was
FailedCleanly ==
    /\ last.made \in {"InvalidKeyType", "UnrepresentableValue"}
    /\ last.err # "none"
    /\ last.res = NoView
    /\ last.xAfter = last.x
    /\ View(heap, slot[1]) = last.x

\* C9 as claimed: `N += v` with such a v fails with the error make_schema(v)
\* raises, returns no node and leaves N's shape and counts as they were.
C9_SameErrorAsFactory ==
    (last.op = "iadd_raw" /\ HasBad(last.raw))
        => FailedCleanly /\ last.err = last.made

\* C9 as amended: `N += v` with such a v fails, with InvalidKeyType when
\* make_schema(v) raises InvalidKeyType and with the unsupported-operand
\* TypeError when make_schema(v) raises UnrepresentableValue; it returns no
\* node and leaves N's shape and counts as they were.
C9_ErrorOfIAdd ==
    (last.op = "iadd_raw" /\ HasBad(last.raw))
        => /\ FailedCleanly
           /\ last.made = "InvalidKeyType" => last.err = "InvalidKeyType"
           /\ last.made = "UnrepresentableValue" => last.err = "UnsupportedOperand"

C9_Witness ==
    /\ last.op = "iadd_raw" /\ HasBad(last.raw)
    /\ last.raw.t = "list"
    /\ last.made = "UnrepresentableValue" /\ last.err = "UnsupportedOperand"
    /\ last.x.kind = "DictStructure"

RECURSIVE ChildrenBounded(_)
ChildrenBounded(v) ==
    CASE v.kind = "DictStructure" ->
            \A k \in DOMAIN v.keys :
                ViewCount(v.keys[k]) <= v.count /\ ChildrenBounded(v.keys[k])
      [] v.kind = "ListStructure" -> ChildrenBounded(v.element_schema)
      [] v.kind = "Variant" ->
            /\ \A t \in DOMAIN v.values : ChildrenBounded(v.values[t])
            /\ ChildrenBounded(v.dicts)
            /\ ChildrenBounded(v.lists)
      [] OTHER -> TRUE

\* C10: in a schema accumulated from raw values, no child of an Object
\* structure has a count greater than the Object structure's.
C10_ChildCountBounded == ChildrenBounded(View(heap, slot[1]))

====
